---- MODULE Spec2Model ----
(***************************************************************************)
(* Model of the DriveThruFiction metadata source plugin                    *)
(* (src/DriveThruFiction/__init__.py): the identify cascade, the detail    *)
(* mapping, the cover cache and download, and the two transport            *)
(* strategies (_fetch_url, _fetch_via_curl).                               *)
(*                                                                         *)
(* Spec is the instance driven by one host thread; SpecDetail is identify  *)
(* with a known identifier over every shape of the detail envelope;        *)
(* SpecAbort adds the host setting the abort event; SpecWorkers is         *)
(* cache_cover_url run by several threads at once.                         *)
(*                                                                         *)
(* Python text is modelled as a sequence of one-character strings, so that *)
(* substring tests, lower(), the regular expressions of _clean_title,      *)
(* split() and quote() are computed as the code computes them.             *)
(***************************************************************************)
EXTENDS Integers, Sequences, FiniteSets, TLC

\* ------------------------------------------------------------------ text

\* Python's None where a text is expected (no text has a 4-character element).
None ==
    <<"None">>

\* Truthiness of a text or a list: None, "" and [] are falsy.
Truthy(x) ==
    x # None /\ x # <<>>

UpperCase ==
    <<"A", "B", "C", "D", "E", "F", "G", "H", "I", "J", "K", "L", "M",
      "N", "O", "P", "Q", "R", "S", "T", "U", "V", "W", "X", "Y", "Z">>

LowerCase ==
    <<"a", "b", "c", "d", "e", "f", "g", "h", "i", "j", "k", "l", "m",
      "n", "o", "p", "q", "r", "s", "t", "u", "v", "w", "x", "y", "z">>

Digits ==
    {"0", "1", "2", "3", "4", "5", "6", "7", "8", "9"}

Range(f) ==
    {f[i] : i \in DOMAIN f}

IsDigit(c) ==
    c \in Digits

\* \s of the re module, on the characters the model uses.
IsSpace(c) ==
    c \in {" ", "\t", "\n"}

WordChars ==
    Range(UpperCase) \cup Range(LowerCase) \cup Digits \cup {"_"}

\* \w of the re module: letters, digits and the underscore.
IsWordChar(c) ==
    c \in WordChars

UpperToLower ==
    [c \in Range(UpperCase) |->
        LowerCase[CHOOSE i \in DOMAIN UpperCase : UpperCase[i] = c]]

LowerChar(c) ==
    IF c \in DOMAIN UpperToLower THEN UpperToLower[c] ELSE c

\* str.lower()
Lower(s) ==
    [i \in DOMAIN s |-> LowerChar(s[i])]

\* `sub in s` on texts.
Contains(sub, s) ==
    \E i \in 0..(Len(s) - Len(sub)) : SubSeq(s, i + 1, i + Len(sub)) = sub

RECURSIVE Join(_, _)
\* sep.join(parts)
Join(sep, parts) ==
    IF parts = <<>> THEN <<>>
    ELSE IF Len(parts) = 1 THEN parts[1]
    ELSE parts[1] \o sep \o Join(sep, Tail(parts))

RECURSIVE SplitFrom(_, _, _)
SplitFrom(s, i, cur) ==
    IF i > Len(s) THEN (IF cur = <<>> THEN <<>> ELSE <<cur>>)
    ELSE IF IsSpace(s[i])
         THEN (IF cur = <<>> THEN <<>> ELSE <<cur>>) \o SplitFrom(s, i + 1, <<>>)
         ELSE SplitFrom(s, i + 1, Append(cur, s[i]))

\* str.split(): the maximal runs of non-whitespace characters.
Split(s) ==
    SplitFrom(s, 1, <<>>)

\* ---------------------------------------------------------- _clean_title

\* The alternation (v|ver|vol) of the version-marker pattern, in its order.
VersionPrefixes ==
    << <<"v">>, <<"v", "e", "r">>, <<"v", "o", "l">> >>

\* \b at the position before s[p]: exactly one side is a word character.
WordAt(s, k) ==
    k \in 1..Len(s) /\ IsWordChar(s[k])

Boundary(s, p) ==
    WordAt(s, p - 1) # WordAt(s, p)

\* The end of the greedy run \d* (resp. \s*) that starts at p: the first
\* position at or after p that holds no digit (resp. no whitespace).
DigitsEnd(s, p) ==
    CHOOSE q \in p..(Len(s) + 1) :
        /\ \A k \in p..(q - 1) : IsDigit(s[k])
        /\ q = Len(s) + 1 \/ ~IsDigit(s[q])

SpacesEnd(s, p) ==
    CHOOSE q \in p..(Len(s) + 1) :
        /\ \A k \in p..(q - 1) : IsSpace(s[k])
        /\ q = Len(s) + 1 \/ ~IsSpace(s[q])

RECURSIVE VersionTail(_, _)
\* (\.\d+)*\b from position p, which follows a digit: greedy, so one more
\* ".digits" group is tried first and given up (backtracking) when the rest
\* cannot match after it. The position after the match, or 0 for no match.
VersionTail(s, p) ==
    LET here == IF Boundary(s, p) THEN p ELSE 0
    IN  IF p + 1 <= Len(s) /\ s[p] = "." /\ IsDigit(s[p + 1])
        THEN LET more == VersionTail(s, DigitsEnd(s, p + 1))
             IN  IF more # 0 THEN more ELSE here
        ELSE here

\* \.?\s*\d+(\.\d+)*\b from position j (after the prefix). Giving back the
\* optional dot, a space or a digit never helps: the next item cannot match
\* the character given back, and \b fails between two digits.
VersionRest(s, j) ==
    LET j1 == IF j <= Len(s) /\ s[j] = "." THEN j + 1 ELSE j
        j2 == SpacesEnd(s, j1)
        j3 == DigitsEnd(s, j2)
    IN  IF j3 = j2 THEN 0 ELSE VersionTail(s, j3)

PrefixAt(s, i, p) ==
    /\ i + Len(p) - 1 <= Len(s)
    /\ Lower(SubSeq(s, i, i + Len(p) - 1)) = p

\* A match of (?i)\b(v|ver|vol)\.?\s*\d+(\.\d+)*\b starting at i: the
\* position after it, or 0.
MatchVersion(s, i) ==
    LET ends == [k \in DOMAIN VersionPrefixes |->
                    IF PrefixAt(s, i, VersionPrefixes[k])
                    THEN VersionRest(s, i + Len(VersionPrefixes[k]))
                    ELSE 0]
        hits == {k \in DOMAIN VersionPrefixes : ends[k] # 0}
    IN  IF ~Boundary(s, i) \/ hits = {} THEN 0
        ELSE ends[CHOOSE k \in hits : \A h \in hits : k <= h]

RECURSIVE SubVersion(_, _)
\* re.sub(version pattern, '', s) from position i: leftmost matches removed.
SubVersion(s, i) ==
    IF i > Len(s) THEN <<>>
    ELSE LET e == MatchVersion(s, i)
         IN  IF e # 0 THEN SubVersion(s, e)
             ELSE <<s[i]>> \o SubVersion(s, i + 1)

\* A match of [\(\[].*?[\)\]] starting at i: an opening bracket, then lazily
\* up to the first closing bracket of either kind ("." matches no newline).
MatchBracket(s, i) ==
    LET closers == {j \in (i + 1)..Len(s) : s[j] \in {")", "]"}}
        first   == CHOOSE j \in closers : \A k \in closers : j <= k
    IN  IF s[i] \in {"(", "["} /\ closers # {}
           /\ \A k \in (i + 1)..(first - 1) : s[k] # "\n"
        THEN first + 1
        ELSE 0

RECURSIVE SubBracket(_, _)
SubBracket(s, i) ==
    IF i > Len(s) THEN <<>>
    ELSE LET e == MatchBracket(s, i)
         IN  IF e # 0 THEN SubBracket(s, e)
             ELSE <<s[i]>> \o SubBracket(s, i + 1)

\* _clean_title(title)
CleanTitle(title) ==
    IF ~Truthy(title) THEN <<>>
    ELSE Join(<<" ">>, Split(SubBracket(SubVersion(title, 1), 1)))

\* -------------------------------------------------------- _create_query

\* _create_query(title, authors): the title and the first author, joined.
CreateQuery(title, authors) ==
    Join(<<" ">>,
         (IF Truthy(title) THEN <<title>> ELSE <<>>)
         \o (IF Truthy(authors) THEN <<authors[1]>> ELSE <<>>))

\* Strategy 4's keyword: the first four words of the cleaned title.
ShortTitle(clean_title) ==
    Join(<<" ">>, SubSeq(Split(clean_title), 1, 4))

\* ------------------------------------------------------- texts of the model

\* "Dracula"
T_Dracula ==
    <<"D", "r", "a", "c", "u", "l", "a">>
\* "Spellcraft Vol. 2 (2020 Edition)"
T_Spellcraft ==
    <<"S", "p", "e", "l", "l", "c", "r", "a", "f", "t", " ", "V", "o",
      "l", ".", " ", "2", " ", "(", "2", "0", "2", "0", " ", "E", "d",
      "i", "t", "i", "o", "n", ")">>
\* "The Call of the Wild v2"
T_WildV2 ==
    <<"T", "h", "e", " ", "C", "a", "l", "l", " ", "o", "f", " ", "t",
      "h", "e", " ", "W", "i", "l", "d", " ", "v", "2">>
\* "The Call of the Wild"
T_Wild ==
    <<"T", "h", "e", " ", "C", "a", "l", "l", " ", "o", "f", " ", "t",
      "h", "e", " ", "W", "i", "l", "d">>
\* "(2020)"
T_Paren ==
    <<"(", "2", "0", "2", "0", ")">>
\* "Bram Stoker"
A_Stoker ==
    <<"B", "r", "a", "m", " ", "S", "t", "o", "k", "e", "r">>
\* "Jack London"
A_London ==
    <<"J", "a", "c", "k", " ", "L", "o", "n", "d", "o", "n">>
\* "Grimoire"
N_Grimoire ==
    <<"G", "r", "i", "m", "o", "i", "r", "e">>
\* "Grimoire - Fantasy Grounds Edition"
N_GrimoireFG ==
    <<"G", "r", "i", "m", "o", "i", "r", "e", " ", "-", " ", "F", "a",
      "n", "t", "a", "s", "y", " ", "G", "r", "o", "u", "n", "d", "s",
      " ", "E", "d", "i", "t", "i", "o", "n">>
\* "HTTP Error 403: Forbidden"
M_403 ==
    <<"H", "T", "T", "P", " ", "E", "r", "r", "o", "r", " ", "4", "0",
      "3", ":", " ", "F", "o", "r", "b", "i", "d", "d", "e", "n">>
\* "HTTP Error 404: Not Found"
M_404 ==
    <<"H", "T", "T", "P", " ", "E", "r", "r", "o", "r", " ", "4", "0",
      "4", ":", " ", "N", "o", "t", " ", "F", "o", "u", "n", "d">>
\* "timed out"
M_Timeout ==
    <<"t", "i", "m", "e", "d", " ", "o", "u", "t">>
\* "Forbidden"
M_Forbidden ==
    <<"F", "o", "r", "b", "i", "d", "d", "e", "n">>

\* "8957/240640.jpg"
P_ImgA ==
    <<"8", "9", "5", "7", "/", "2", "4", "0", "6", "4", "0", ".", "j",
      "p", "g">>
\* "12/7.png"
P_ImgB ==
    <<"1", "2", "/", "7", ".", "p", "n", "g">>

\* ------------------------------------------------------------ identifiers

\* A catalog id as Python holds it: None, an int (entityId of the search
\* response) or a str (the host's identifiers, str(product_id)).
NoId ==
    [t |-> "none", v |-> 0]

IntId(n) ==
    [t |-> "int", v |-> n]

StrId(n) ==
    [t |-> "str", v |-> n]

TruthyId(x) ==
    x.t # "none" /\ ~(x.t = "int" /\ x.v = 0)

\* str(product_id), also the f-string formatting of the detail URL.
Str(x) ==
    IF x.t = "int" THEN StrId(x.v) ELSE x

\* ------------------------------------------------------------------- URLs

\* urllib.parse.quote(query): letters, digits and "_.-~/" are kept, every
\* other character is percent-encoded.
PercentCode(c) ==
    CASE c = " " -> <<"%", "2", "0">>
      [] c = "(" -> <<"%", "2", "8">>
      [] c = ")" -> <<"%", "2", "9">>
      [] c = "[" -> <<"%", "5", "B">>
      [] c = "]" -> <<"%", "5", "D">>
      [] c = ":" -> <<"%", "3", "A">>
      [] c = "," -> <<"%", "2", "C">>

RECURSIVE Quote(_)
Quote(s) ==
    IF s = <<>> THEN <<>>
    ELSE (IF IsWordChar(s[1]) \/ s[1] \in {".", "-", "~", "/"}
          THEN <<s[1]>> ELSE PercentCode(s[1]))
         \o Quote(Tail(s))

group_id ==
    25

site_id ==
    70

\* The search URL of _api_search.
SearchUrl(query) ==
    [endpoint |-> "search_ahead", params |-> <<group_id, site_id>>,
     keyword |-> Quote(query), id |-> NoId, path |-> <<>>]

\* The detail URL of _get_product_details.
DetailUrl(product_id) ==
    [endpoint |-> "products", params |-> <<>>,
     keyword |-> <<>>, id |-> Str(product_id), path |-> <<>>]

\* The cover URL _get_product_details builds from the image path.
CoverUrl(img_path) ==
    [endpoint |-> "images", params |-> <<>>,
     keyword |-> <<>>, id |-> NoId, path |-> img_path]

\* ----------------------------------------------------------- _api_search

BlockTerm ==
    <<"f", "a", "n", "t", "a", "s", "y", " ", "g", "r", "o", "u", "n",
      "d", "s">>

\* A faulty variant of Blocked: the block term is looked for in the name as
\* written, without lower().
BlockedCaseSensitive(name) ==
    Contains(BlockTerm, name)

\* 'fantasy grounds' in name.lower()
Blocked(name) ==
    Contains(BlockTerm, Lower(name))

\* `if pid and name:` followed by the block-term test: the item is kept.
Keeps(item) ==
    /\ TruthyId(item.entityId)
    /\ Truthy(item.name)
    /\ ~Blocked(item.name)

RECURSIVE FilterResults(_)
\* The loop over data['data']: the kept items, in the response's order.
FilterResults(data) ==
    IF data = <<>> THEN <<>>
    ELSE (IF Keeps(data[1])
          THEN <<[id |-> data[1].entityId, name |-> data[1].name]>>
          ELSE <<>>)
         \o FilterResults(Tail(data))

\* "Curl failed: "
CurlFailed ==
    <<"C", "u", "r", "l", " ", "f", "a", "i", "l", "e", "d", ":", " ">>

\* What _fetch_via_curl gives for a command's outcome: the bytes of its
\* standard output, or Exception("Curl failed: ...") on a non-zero exit.
FetchViaCurl(outcome) ==
    IF outcome.ok
    THEN [raised |-> FALSE, exc |-> "", msg |-> <<>>, bytes |-> outcome.body]
    ELSE [raised |-> TRUE, exc |-> "Exception",
          msg |-> CurlFailed \o outcome.msg, bytes |-> outcome.body]

\* _api_search on the curl outcome: json.loads raises on a body that is no
\* JSON, `'data' in data` raises TypeError on a number, is False on an
\* array and on an object without the key.
ApiSearch(outcome) ==
    LET f == FetchViaCurl(outcome)
        b == f.bytes
    IN  IF f.raised THEN [raised |-> TRUE, exc |-> f.exc, results |-> <<>>]
        ELSE IF b.kind = "invalid"
        THEN [raised |-> TRUE, exc |-> "JSONDecodeError", results |-> <<>>]
        ELSE IF b.kind = "scalar"
        THEN [raised |-> TRUE, exc |-> "TypeError", results |-> <<>>]
        ELSE IF b.kind = "object" /\ b.hasData
        THEN [raised |-> FALSE, exc |-> "", results |-> FilterResults(b.data)]
        ELSE [raised |-> FALSE, exc |-> "", results |-> <<>>]

\* -------------------------------------------------- _get_product_details

\* `a or b` on texts.
Or(a, b) ==
    IF Truthy(a) THEN a ELSE b

\* "Unknown"
Unknown ==
    <<"U", "n", "k", "n", "o", "w", "n">>

\* name
PluginName ==
    "DriveThruFiction Metadata"

\* calibre's parse_date on the dateAvailable text: a date, or an error.
ParseDateRaises(date_str) ==
    date_str \notin {"2018-04-25T13:39:15-05:00", "1897-05-26T00:00:00-00:00"}

RECURSIVE FirstPublisherTagged(_)
\* A faulty variant of FirstPublisher: the `break` sits one level up, so
\* the scan ends at the first entity of type Publisher, named or not.
FirstPublisherTagged(included) ==
    IF included = <<>> THEN None
    ELSE IF included[1].type = "Publisher"
         THEN IF Truthy(included[1].name) THEN included[1].name ELSE None
         ELSE FirstPublisherTagged(Tail(included))

RECURSIVE FirstPublisher(_)
\* The scan of root['included']: the name of the first entity of type
\* Publisher whose name is truthy; None when there is none.
FirstPublisher(included) ==
    IF included = <<>> THEN None
    ELSE IF included[1].type = "Publisher" /\ Truthy(included[1].name)
         THEN included[1].name
         ELSE FirstPublisher(Tail(included))

\* A faulty variant of MapDetail: no "Unknown" sentinel for a missing title
\* or a missing author list.
MapDetailNoSentinel(root, product_id) ==
    [kind       |-> "mi",
     title      |-> Or(root.descName, root.name),
     authors    |-> root.authors,
     identifier |-> Str(product_id),
     source     |-> PluginName,
     comments   |-> IF root.descText = None THEN <<>> ELSE root.descText,
     publisher  |-> IF root.hasIncluded THEN FirstPublisher(root.included)
                    ELSE None,
     pubdate    |-> IF root.dateAvailable # "" /\ ~ParseDateRaises(root.dateAvailable)
                    THEN root.dateAvailable ELSE "",
     cdata      |-> ""]

\* The Metadata record built from a parsed envelope (lines 232-271).
MapDetail(root, product_id) ==
    [kind       |-> "mi",
     title      |-> Or(root.descName, Or(root.name, Unknown)),
     authors    |-> IF root.authors = <<>> THEN <<Unknown>> ELSE root.authors,
     identifier |-> Str(product_id),
     source     |-> PluginName,
     comments   |-> IF root.descText = None THEN <<>> ELSE root.descText,
     publisher  |-> IF root.hasIncluded THEN FirstPublisher(root.included)
                    ELSE None,
     pubdate    |-> IF root.dateAvailable # "" /\ ~ParseDateRaises(root.dateAvailable)
                    THEN root.dateAvailable ELSE "",
     cdata      |-> ""]

\* A faulty variant of DetailRaises: parse_date is called outside a try
\* block and `included` is read without the `in` test.
DetailRaisesUnguarded(body) ==
    CASE body.kind = "invalid" -> "JSONDecodeError"
      [] body.kind \in {"scalar", "array"} -> "AttributeError"
      [] ~body.hasIncluded -> "KeyError"
      [] body.dateAvailable # "" /\ ParseDateRaises(body.dateAvailable) ->
            "ValueError"
      [] OTHER -> ""

\* The exception, if any, json.loads and the .get chain raise on a body.
DetailRaises(body) ==
    CASE body.kind = "invalid" -> "JSONDecodeError"
      [] body.kind \in {"scalar", "array"} -> "AttributeError"
      [] OTHER -> ""

\* cache_cover_url(url, product_id) on the instance's _cached_cover; an
\* instance without the attribute has has = FALSE.
CacheCoverUrl(cache, url, product_id) ==
    LET m == IF cache.has THEN cache.map ELSE {}
    IN  [has |-> TRUE,
         map |-> {e \in m : e[1] # product_id} \cup {<<product_id, url>>}]

\* dict.get(key) on the cached mapping: the URL, or NoUrl for None.
NoUrl ==
    [endpoint |-> "", params |-> <<>>, keyword |-> <<>>, id |-> NoId,
     path |-> <<>>]

\* get_cached_cover_url(identifiers)
GetCachedCoverUrl(cache, plugin_id) ==
    LET m == IF cache.has THEN cache.map ELSE {}
    IN  IF TruthyId(plugin_id) /\ \E e \in m : e[1] = plugin_id
        THEN (CHOOSE e \in m : e[1] = plugin_id)[2]
        ELSE NoUrl

\* A faulty variant of CoverKey: the id is used as the key as it is, an int
\* when it comes from a search response.
CoverKeyRaw(product_id) ==
    product_id

\* The key of the cover cache entry: str(product_id) (line 279).
CoverKey(product_id) ==
    Str(product_id)

\* _get_product_details on the curl outcome: the exception raised, or the
\* record put on the queue and the cache after cache_cover_url.
GetProductDetails(outcome, product_id, cache) ==
    LET f == FetchViaCurl(outcome)
        e == IF f.raised THEN f.exc ELSE DetailRaises(f.bytes)
    IN  IF e # ""
        THEN [raised |-> TRUE, exc |-> e, put |-> <<>>, cache |-> cache]
        ELSE [raised |-> FALSE, exc |-> "",
              put    |-> <<MapDetail(f.bytes, product_id)>>,
              cache  |-> IF Truthy(f.bytes.image)
                         THEN CacheCoverUrl(cache, CoverUrl(f.bytes.image),
                                            CoverKey(product_id))
                         ELSE cache]

\* ------------------------------------------------------------ _fetch_url

\* A faulty variant of AccessDenied: every error of the session strategy is
\* taken for a block.
AccessDeniedAnyError(msg) ==
    TRUE

\* `'403' in msg or 'Forbidden' in msg`
AccessDenied(msg) ==
    \/ Contains(<<"4", "0", "3">>, msg)
    \/ Contains(<<"F", "o", "r", "b", "i", "d", "d", "e", "n">>, msg)

\* ------------------------------------------------------ inputs and bounds

\* The longest `data` list of a search response.
MaxData ==
    2

Titles ==
    {None, <<>>, T_Dracula, T_Spellcraft, T_WildV2, T_Wild, T_Paren}

\* authors=None behaves as [] at each of its uses (`if authors`).
AuthorLists ==
    {<<>>, << <<>> >>, <<A_Stoker, A_London>>}

CatalogIds ==
    {1, 2}

\* identifiers.get('drivethrufiction', None): absent, or the id as a str.
HostIds ==
    {NoId} \cup {StrId(n) : n \in CatalogIds}

\* timeout=30, the default of identify and download_cover.
DefaultTimeout ==
    30

Timeouts ==
    {10, DefaultTimeout}

SearchItems ==
    {[entityId |-> IntId(1), name |-> N_Grimoire],
     [entityId |-> IntId(2), name |-> N_Grimoire],
     [entityId |-> IntId(2), name |-> N_GrimoireFG],
     [entityId |-> NoId,     name |-> N_Grimoire],
     [entityId |-> IntId(1), name |-> None]}

SeqsUpTo(S, n) ==
    UNION {[1..k -> S] : k \in 0..n}

\* The bodies a search round trip can bring back: text that is no JSON, a
\* JSON number, a JSON array, an object without `data`, an object with it.
SearchBodies ==
    {[kind |-> k, hasData |-> FALSE, data |-> <<>>] :
        k \in {"invalid", "scalar", "array", "object"}}
    \cup {[kind |-> "object", hasData |-> TRUE, data |-> d] :
        d \in SeqsUpTo(SearchItems, MaxData)}

\* The bodies a detail round trip can bring back.
DetailBodies ==
    {[kind |-> k, descName |-> None, descText |-> None, name |-> None,
      authors |-> <<>>, dateAvailable |-> "", image |-> None,
      hasIncluded |-> FALSE, included |-> <<>>] :
        k \in {"invalid", "array"}}
    \cup {[kind |-> "object", descName |-> dn, descText |-> None, name |-> n,
           authors |-> a, dateAvailable |-> "", image |-> img,
           hasIncluded |-> FALSE, included |-> <<>>] :
        dn \in {None, T_Dracula}, n \in {None, N_Grimoire},
        a \in {<<>>, <<A_Stoker>>}, img \in {None, P_ImgA, P_ImgB}}

\* The longest `included` list of a detail response.
MaxIncluded ==
    2

\* "Archibald Constable"
P_Constable ==
    <<"A", "r", "c", "h", "i", "b", "a", "l", "d", " ", "C", "o", "n", "s",
      "t", "a", "b", "l", "e">>
\* "Onyx Path"
P_Onyx ==
    <<"O", "n", "y", "x", " ", "P", "a", "t", "h">>

\* "A Gothic novel."
D_Gothic ==
    <<"A", " ", "G", "o", "t", "h", "i", "c", " ", "n", "o", "v", "e", "l",
      ".">>

\* The entities of an `included` list: publishers with a name, a publisher
\* without one, and an entity of another type.
IncludedEntities ==
    {[type |-> "Publisher", name |-> P_Constable],
     [type |-> "Publisher", name |-> P_Onyx],
     [type |-> "Publisher", name |-> None],
     [type |-> "Author",    name |-> A_Stoker]}

\* The dateAvailable values: absent, two dates parse_date reads, and a text
\* it rejects.
DateValues ==
    {"", "1897-05-26T00:00:00-00:00", "2018-04-25T13:39:15-05:00", "soon"}

\* The well-formed envelopes of a detail response, each of description,
\* name, authors, dateAvailable, image and included present or absent, and
\* the two malformed bodies.
EnvelopeBodies ==
    {[kind |-> k, descName |-> None, descText |-> None, name |-> None,
      authors |-> <<>>, dateAvailable |-> "", image |-> None,
      hasIncluded |-> FALSE, included |-> <<>>] :
        k \in {"invalid", "array"}}
    \cup {[kind |-> "object", descName |-> dn,
           descText |-> IF dn = None THEN None ELSE D_Gothic, name |-> n,
           authors |-> a, dateAvailable |-> d, image |-> img,
           hasIncluded |-> FALSE, included |-> <<>>] :
        dn \in {None, T_Dracula}, n \in {None, N_Grimoire},
        a \in {<<>>, <<A_Stoker>>}, d \in DateValues,
        img \in {None, P_ImgA}}
    \cup {[kind |-> "object", descName |-> dn,
           descText |-> IF dn = None THEN None ELSE D_Gothic, name |-> n,
           authors |-> a, dateAvailable |-> d, image |-> img,
           hasIncluded |-> TRUE, included |-> inc] :
        dn \in {None, T_Dracula}, n \in {None, N_Grimoire},
        a \in {<<>>, <<A_Stoker>>}, d \in DateValues,
        img \in {None, P_ImgA},
        inc \in SeqsUpTo(IncludedEntities, MaxIncluded)}

CoverBodies ==
    {"JPEG-A", "JPEG-B"}

\* "exit status 22"
M_CurlExit ==
    <<"e", "x", "i", "t", " ", "2", "2">>

\* The outcomes of one curl command: its output, or a non-zero exit.
CurlOutcomes(bodies) ==
    {[ok |-> TRUE, body |-> b, msg |-> <<>>] : b \in bodies}
    \cup {[ok |-> FALSE, body |-> "", msg |-> M_CurlExit]}

\* The outcomes of br.open_novisit(url).read(): the bytes, or an exception
\* with its text.
SessionOutcomes ==
    {[ok |-> TRUE, body |-> b, msg |-> <<>>] : b \in {"page-A", "page-B"}}
    \cup {[ok |-> FALSE, body |-> "", msg |-> m] :
            m \in {M_403, M_Forbidden, M_404, M_Timeout}}

FetchUrls ==
    {SearchUrl(T_Dracula), DetailUrl(StrId(1))}

\* The threads that run identify on the one instance at the same time.
NumWorkers ==
    2

Workers ==
    1..NumWorkers

\* The cover URLs two details of a product can carry.
WorkerUrls ==
    {CoverUrl(P_ImgA), CoverUrl(P_ImgB)}

\* ------------------------------------------------------------------ state

VARIABLES
    pc,            \* where the plugin instance is: idle, inside a call, done
    call,          \* the call in progress: its name and arguments
    stage,         \* the strategy (1..4) whose search is pending or returned
    query,         \* identify's `query`, the strategy-1 keyword
    keyword,       \* the argument of the pending _api_search call
    matches,       \* identify's `matches`
    product_id,    \* identify's `product_id`
    trips,         \* the transport invocations of the call, in order
    last,          \* the outcome of the latest transport invocation
    result_queue,  \* what the call has put on the host's result queue
    ret,           \* how the call ended: returned (with a value) or raised
    cached_cover,  \* the instance's lazily created _cached_cover mapping
    abort,         \* the call's `abort` event is set
    abort_trips,   \* how many round trips the call had made when it was set
    workers        \* the threads inside cache_cover_url, each at its line

vars ==
    <<pc, call, stage, query, keyword, matches, product_id, trips, last,
      result_queue, ret, cached_cover, abort, abort_trips, workers>>

NoCall ==
    [op |-> "none", title |-> None, authors |-> <<>>, id |-> NoId,
     timeout |-> 0, url |-> NoUrl]

NoOutcome ==
    [ok |-> FALSE, body |-> "", msg |-> <<>>]

NoRet ==
    [status |-> "none", exc |-> "", msg |-> <<>>, value |-> ""]

Returned(value) ==
    [status |-> "returned", exc |-> "", msg |-> <<>>, value |-> value]

Raised(exc, msg) ==
    [status |-> "raised", exc |-> exc, msg |-> msg, value |-> ""]

\* One transport invocation: the strategy, the URL, the timeout, and how
\* the round trip ended for its caller.
Trip(strategy, url, timeout, res) ==
    [strategy |-> strategy, url |-> url, timeout |-> timeout, res |-> res]

\* A thread that is not inside cache_cover_url.
Off ==
    [pc |-> "off", id |-> NoId, url |-> NoUrl]

Init ==
    /\ pc = "idle"
    /\ call = NoCall
    /\ stage = 0
    /\ query = <<>>
    /\ keyword = <<>>
    /\ matches = <<>>
    /\ product_id = NoId
    /\ trips = <<>>
    /\ last = NoOutcome
    /\ result_queue = <<>>
    /\ ret = NoRet
    /\ cached_cover = [has |-> FALSE, map |-> {}]
    /\ abort = FALSE
    /\ abort_trips = 0
    /\ workers = [w \in Workers |-> Off]

\* --------------------------------------------------------------- identify

\* A faulty variant of NeedsSearch: the search runs whatever the identifier.
NeedsSearchAlways(pid) ==
    TRUE

\* `if not product_id:` (line 137)
NeedsSearch(pid) ==
    ~TruthyId(pid)

\* A faulty variant of Handled: only the transport's own Exception is
\* caught, a parse error escapes to the host.
HandledTransportOnly(exc) ==
    exc = "Exception"

\* `except Exception as e:` (lines 179 and 187): what identify does with an
\* exception of the search or of the detail mapping.
Handled(exc) ==
    TRUE

\* A variant of AfterSearch with one try block per strategy: a failed
\* search counts as zero matches and the cascade goes on.
AfterSearchSwallow(r) ==
    "cascade"

\* The one try block around the whole cascade (lines 145-181): an exception
\* of any strategy's search leaves the cascade for the handler; a search
\* that returns goes on in the cascade.
AfterSearch(r) ==
    IF r.raised THEN "except" ELSE "cascade"

\* A faulty variant of NextStage: the `not matches` tests are dropped, so
\* later strategies run although an earlier one matched.
NextStageNoShortCircuit(s, m, title, authors, q) ==
    LET clean_title == CleanTitle(title)
        s3 == IF clean_title # title THEN 3 ELSE 0
    IN  CASE s = 1 -> IF authors # <<>> /\ CreateQuery(title, <<>>) # q
                      THEN 2 ELSE s3
          [] s = 2 -> s3
          [] s = 3 -> IF Len(Split(clean_title)) > 4 THEN 4 ELSE 0
          [] OTHER -> 0

\* A faulty variant of NextStage: a candidate without matches is searched
\* once more before the cascade moves on.
NextStageRetry(s, m, title, authors, q) ==
    IF m = <<>> THEN s ELSE 0

\* The strategy identify tries after strategy `s` returned matches `m`
\* (lines 149-169), 0 when the cascade is over.
NextStage(s, m, title, authors, q) ==
    LET clean_title == CleanTitle(title)
        s3 == IF m = <<>> /\ clean_title # title THEN 3 ELSE 0
    IN  CASE s = 1 -> IF m = <<>> /\ authors # <<>>
                         /\ CreateQuery(title, <<>>) # q
                      THEN 2 ELSE s3
          [] s = 2 -> s3
          [] s = 3 -> IF m = <<>> /\ Len(Split(clean_title)) > 4
                      THEN 4 ELSE 0
          [] OTHER -> 0

\* The keyword of strategy s.
StageKeyword(s, title, authors) ==
    CASE s = 1 -> CreateQuery(title, authors)
      [] s = 2 -> CreateQuery(title, <<>>)
      [] s = 3 -> CleanTitle(title)
      [] s = 4 -> ShortTitle(CleanTitle(title))

\* identify(log, result_queue, abort, title, authors, identifiers, timeout)
\* up to its first round trip (lines 131-147).
Identify(title, authors, identifiers, timeout) ==
    /\ pc = "idle"
    /\ call' = [op |-> "identify", title |-> title, authors |-> authors,
                id |-> identifiers, timeout |-> timeout, url |-> NoUrl]
    /\ product_id' = identifiers
    /\ trips' = <<>> /\ last' = NoOutcome /\ result_queue' = <<>>
    /\ matches' = <<>>
    /\ IF NeedsSearch(identifiers)
       THEN /\ query' = CreateQuery(title, authors)
            /\ IF ~Truthy(query')
               THEN /\ pc' = "done" /\ ret' = Returned("")
                    /\ stage' = 0 /\ keyword' = <<>>
               ELSE /\ pc' = "search" /\ ret' = NoRet
                    /\ stage' = 1 /\ keyword' = query'
       ELSE /\ query' = <<>> /\ keyword' = <<>> /\ stage' = 0
            /\ pc' = "detail" /\ ret' = NoRet
    /\ UNCHANGED cached_cover
    /\ abort' = FALSE /\ abort_trips' = 0
    /\ UNCHANGED workers

\* One _api_search(keyword, timeout, log) call (lines 190-220); an
\* exception reaches identify's handler (lines 179-181).
ApiSearchCall(outcome) ==
    /\ pc = "search"
    /\ LET r == ApiSearch(outcome)
       IN  /\ trips' = Append(trips,
                  Trip("curl", SearchUrl(keyword), call.timeout,
                       IF r.raised THEN "error"
                       ELSE IF r.results = <<>> THEN "empty" ELSE "match"))
           /\ last' = outcome
           /\ IF AfterSearch(r) = "except"
              THEN /\ pc' = "done"
                   /\ ret' = IF Handled(r.exc) THEN Returned("")
                             ELSE Raised(r.exc, <<>>)
                   /\ UNCHANGED matches
              ELSE /\ pc' = "cascade"
                   /\ matches' = r.results
                   /\ UNCHANGED ret
    /\ UNCHANGED <<call, stage, query, keyword, product_id, result_queue,
                   cached_cover>>
    /\ UNCHANGED <<abort, abort_trips, workers>>

\* identify between two round trips (lines 149-177): the next strategy, or
\* the end of the cascade with the first match taken or none found.
Cascade ==
    /\ pc = "cascade"
    /\ LET n == NextStage(stage, matches, call.title, call.authors, query)
       IN  IF n # 0
           THEN /\ pc' = "search" /\ stage' = n
                /\ keyword' = StageKeyword(n, call.title, call.authors)
                /\ UNCHANGED <<product_id, ret>>
           ELSE IF matches = <<>>
           THEN /\ pc' = "done" /\ ret' = Returned("")
                /\ UNCHANGED <<stage, keyword, product_id>>
           ELSE /\ product_id' = matches[1].id
                /\ IF TruthyId(product_id')
                   THEN pc' = "detail" /\ UNCHANGED ret
                   ELSE pc' = "done" /\ ret' = Returned("")
                /\ UNCHANGED <<stage, keyword>>
    /\ last' = NoOutcome
    /\ UNCHANGED <<call, query, matches, trips, result_queue, cached_cover>>
    /\ UNCHANGED <<abort, abort_trips, workers>>

\* The _get_product_details call of identify (lines 183-188, 222-281).
Details(outcome) ==
    /\ pc = "detail"
    /\ LET r == GetProductDetails(outcome, product_id, cached_cover)
       IN  /\ trips' = Append(trips,
                  Trip("curl", DetailUrl(product_id), call.timeout,
                       IF r.raised THEN "error" ELSE "ok"))
           /\ result_queue' = result_queue \o r.put
           /\ cached_cover' = r.cache
           /\ ret' = IF r.raised /\ ~Handled(r.exc) THEN Raised(r.exc, <<>>)
                     ELSE Returned("")
    /\ last' = outcome
    /\ pc' = "done"
    /\ UNCHANGED <<call, stage, query, keyword, matches, product_id>>
    /\ UNCHANGED <<abort, abort_trips, workers>>

\* --------------------------------------------------------- download_cover

\* download_cover(...) up to its round trip (lines 301-304, 311-314).
DownloadCover(identifiers, timeout) ==
    /\ pc = "idle"
    /\ LET cached_url == GetCachedCoverUrl(cached_cover, identifiers)
       IN  /\ call' = [op |-> "download_cover", title |-> None,
                       authors |-> <<>>, id |-> identifiers,
                       timeout |-> timeout, url |-> cached_url]
           /\ IF cached_url # NoUrl
              THEN pc' = "cover" /\ ret' = NoRet
              ELSE pc' = "done" /\ ret' = Returned("")
    /\ trips' = <<>> /\ last' = NoOutcome /\ result_queue' = <<>>
    /\ UNCHANGED <<stage, query, keyword, matches, product_id, cached_cover>>
    /\ abort' = FALSE /\ abort_trips' = 0
    /\ UNCHANGED workers

\* The entry download_cover puts: (self, cdata).
CoverEntry(cdata) ==
    [kind |-> "cover", title |-> <<>>, authors |-> <<>>, identifier |-> NoId,
     source |-> PluginName, comments |-> <<>>, publisher |-> None,
     pubdate |-> "", cdata |-> cdata]

\* The cover round trip (lines 305-310).
CoverFetch(outcome) ==
    /\ pc = "cover"
    /\ LET f == FetchViaCurl(outcome)
       IN  /\ trips' = Append(trips,
                  Trip("curl", call.url, call.timeout,
                       IF f.raised THEN "error" ELSE "ok"))
           /\ result_queue' = IF f.raised THEN result_queue
                              ELSE Append(result_queue, CoverEntry(f.bytes))
    /\ last' = outcome
    /\ ret' = Returned("")
    /\ pc' = "done"
    /\ UNCHANGED <<call, stage, query, keyword, matches, product_id,
                   cached_cover>>
    /\ UNCHANGED <<abort, abort_trips, workers>>

\* ------------------------------------------------------------- _fetch_url

\* _fetch_url(url, timeout) up to br.open_novisit (lines 70-86). No code of
\* the repository calls the method; it is an entry point of the instance.
FetchUrl(url, timeout) ==
    /\ pc = "idle"
    /\ call' = [op |-> "_fetch_url", title |-> None, authors |-> <<>>,
                id |-> NoId, timeout |-> timeout, url |-> url]
    /\ pc' = "session"
    /\ trips' = <<>> /\ last' = NoOutcome /\ result_queue' = <<>>
    /\ ret' = NoRet
    /\ UNCHANGED <<stage, query, keyword, matches, product_id, cached_cover>>
    /\ abort' = FALSE /\ abort_trips' = 0
    /\ UNCHANGED workers

\* The session strategy's round trip and the handler (lines 87-94).
SessionOpen(outcome) ==
    /\ pc = "session"
    /\ last' = outcome
    /\ IF outcome.ok
       THEN /\ trips' = Append(trips,
                   Trip("session", call.url, call.timeout, "ok"))
            /\ ret' = Returned(outcome.body)
            /\ pc' = "done"
       ELSE IF AccessDenied(outcome.msg)
       THEN /\ trips' = Append(trips,
                   Trip("session", call.url, call.timeout, "denied"))
            /\ pc' = "curl"
            /\ UNCHANGED ret
       ELSE /\ trips' = Append(trips,
                   Trip("session", call.url, call.timeout, "error"))
            /\ ret' = Raised("URLError", outcome.msg)
            /\ pc' = "done"
    /\ UNCHANGED <<call, stage, query, keyword, matches, product_id,
                   result_queue, cached_cover>>
    /\ UNCHANGED <<abort, abort_trips, workers>>

\* A faulty variant of CurlFallback: when the command fails, the session
\* strategy is tried again.
CurlFallbackRetry(outcome) ==
    /\ pc = "curl"
    /\ LET f == FetchViaCurl(outcome)
       IN  /\ trips' = Append(trips,
                  Trip("curl", call.url, call.timeout,
                       IF f.raised THEN "error" ELSE "ok"))
           /\ IF f.raised
              THEN pc' = "session" /\ UNCHANGED ret
              ELSE pc' = "done" /\ ret' = Returned(f.bytes)
    /\ last' = outcome
    /\ UNCHANGED <<call, stage, query, keyword, matches, product_id,
                   result_queue, cached_cover>>
    /\ UNCHANGED <<abort, abort_trips, workers>>

\* The external-process strategy as _fetch_url's fallback (line 93).
CurlFallback(outcome) ==
    /\ pc = "curl"
    /\ LET f == FetchViaCurl(outcome)
       IN  /\ trips' = Append(trips,
                  Trip("curl", call.url, call.timeout,
                       IF f.raised THEN "error" ELSE "ok"))
           /\ ret' = IF f.raised THEN Raised(f.exc, f.msg)
                     ELSE Returned(f.bytes)
    /\ last' = outcome
    /\ pc' = "done"
    /\ UNCHANGED <<call, stage, query, keyword, matches, product_id,
                   result_queue, cached_cover>>
    /\ UNCHANGED <<abort, abort_trips, workers>>

\* ------------------------------------------------------------------- host

\* The host takes the call's outcome; the instance is idle again. Only the
\* instance's attribute _cached_cover outlives a call.
Collect ==
    /\ pc = "done"
    /\ pc' = "idle"
    /\ call' = NoCall /\ stage' = 0 /\ query' = <<>> /\ keyword' = <<>>
    /\ matches' = <<>> /\ product_id' = NoId /\ trips' = <<>>
    /\ last' = NoOutcome /\ result_queue' = <<>> /\ ret' = NoRet
    /\ UNCHANGED cached_cover
    /\ abort' = FALSE /\ abort_trips' = 0
    /\ UNCHANGED workers

Next ==
    \/ \E t \in Titles, a \in AuthorLists, i \in HostIds :
          Identify(t, a, i, DefaultTimeout)
    \/ \E o \in CurlOutcomes(SearchBodies) : ApiSearchCall(o)
    \/ Cascade
    \/ \E o \in CurlOutcomes(DetailBodies) : Details(o)
    \/ \E i \in HostIds, to \in Timeouts : DownloadCover(i, to)
    \/ \E o \in CurlOutcomes(CoverBodies) : CoverFetch(o)
    \/ \E u \in FetchUrls, to \in Timeouts : FetchUrl(u, to)
    \/ \E o \in SessionOutcomes : SessionOpen(o)
    \/ \E o \in CurlOutcomes({"page-A", "page-B"}) : CurlFallback(o)
    \/ Collect

Spec ==
    Init /\ [][Next]_vars

\* ------------------------------------------------------ the detail mapping

\* identify with a known identifier, over every well-formed envelope.
NextDetail ==
    \/ \E i \in HostIds \ {NoId} : Identify(T_Dracula, <<>>, i, DefaultTimeout)
    \/ \E o \in CurlOutcomes(EnvelopeBodies) : Details(o)
    \/ Collect

SpecDetail ==
    Init /\ [][NextDetail]_vars

\* ------------------------------------------------------------------ abort

\* The host sets the call's abort event (threading.Event.set) while the
\* call runs. No line of identify or download_cover reads the event.
SetAbort ==
    /\ pc \in {"search", "cascade", "detail", "cover"}
    /\ ~abort
    /\ abort' = TRUE
    /\ abort_trips' = Len(trips)
    /\ UNCHANGED <<pc, call, stage, query, keyword, matches, product_id,
                   trips, last, result_queue, ret, cached_cover, workers>>

NextAbort ==
    \/ Next
    \/ SetAbort

SpecAbort ==
    Init /\ [][NextAbort]_vars

\* ------------------------------------------- concurrent cache_cover_url

\* A thread's identify reaches self.cache_cover_url(cover_url,
\* str(product_id)) (line 279).
WorkerEnter(w, id, url) ==
    /\ workers[w].pc = "off"
    /\ workers' = [workers EXCEPT ![w] = [pc |-> "check", id |-> id,
                                          url |-> url]]
    /\ UNCHANGED <<pc, call, stage, query, keyword, matches, product_id,
                   trips, last, result_queue, ret, cached_cover, abort,
                   abort_trips>>

\* `if not hasattr(self, '_cached_cover'):` (line 324)
WorkerCheck(w) ==
    /\ workers[w].pc = "check"
    /\ workers' = [workers EXCEPT ![w].pc =
                      IF cached_cover.has THEN "insert" ELSE "create"]
    /\ UNCHANGED <<pc, call, stage, query, keyword, matches, product_id,
                   trips, last, result_queue, ret, cached_cover, abort,
                   abort_trips>>

\* `self._cached_cover = {}` (line 325): a new empty dict replaces whatever
\* the attribute holds by now.
WorkerCreate(w) ==
    /\ workers[w].pc = "create"
    /\ cached_cover' = [has |-> TRUE, map |-> {}]
    /\ workers' = [workers EXCEPT ![w].pc = "insert"]
    /\ UNCHANGED <<pc, call, stage, query, keyword, matches, product_id,
                   trips, last, result_queue, ret, abort, abort_trips>>

\* `self._cached_cover[product_id] = url` (line 326)
WorkerInsert(w) ==
    /\ workers[w].pc = "insert"
    /\ cached_cover' = CacheCoverUrl(cached_cover, workers[w].url,
                                     workers[w].id)
    /\ workers' = [workers EXCEPT ![w].pc = "cached"]
    /\ UNCHANGED <<pc, call, stage, query, keyword, matches, product_id,
                   trips, last, result_queue, ret, abort, abort_trips>>

NextWorkers ==
    \/ \E w \in Workers, n \in CatalogIds, u \in WorkerUrls :
          WorkerEnter(w, StrId(n), u)
    \/ \E w \in Workers : WorkerCheck(w)
    \/ \E w \in Workers : WorkerCreate(w)
    \/ \E w \in Workers : WorkerInsert(w)

SpecWorkers ==
    Init /\ [][NextWorkers]_vars

\* ------------------------------------------------------------- properties

IsSearch(trip) ==
    trip.url.endpoint = "search_ahead"

IsDetail(trip) ==
    trip.url.endpoint = "products"

IsCover(trip) ==
    trip.url.endpoint = "images"

InIdentify ==
    call.op = "identify"

\* The search round trips of the call are those of strategies s1 < s2 < ...
\* in that order.
SearchesInOrder ==
    LET n == Cardinality({i \in DOMAIN trips : IsSearch(trips[i])})
    IN  \E f \in [1..n -> 1..4] :
            /\ \A i \in 1..n : \A j \in 1..n : i < j => f[i] < f[j]
            /\ \A i \in 1..n :
                  /\ IsSearch(trips[i])
                  /\ trips[i].url =
                       SearchUrl(StageKeyword(f[i], call.title, call.authors))

\* C1: in identify the search candidates are issued strictly in order and
\* the cascade short-circuits: a search is issued only if every earlier
\* search of the call returned zero filtered matches, and after a search
\* that returned a match no further search is issued.
C1_CascadeShortCircuits ==
    InIdentify =>
        /\ SearchesInOrder
        /\ \A i \in DOMAIN trips : IsSearch(trips[i]) =>
              \A j \in 1..(i - 1) :
                  IsSearch(trips[j]) /\ trips[j].res = "empty"
        /\ \A i \in DOMAIN trips :
              (IsSearch(trips[i]) /\ trips[i].res = "match") =>
                  \A j \in (i + 1)..Len(trips) : ~IsSearch(trips[j])

\* C1's case: strategy 1 found nothing, strategy 2 matched, and strategies
\* 3 and 4, which the title allows, were not tried.
C1_Witness ==
    /\ InIdentify /\ pc = "done"
    /\ call.title = T_WildV2 /\ call.authors # <<>>
    /\ Len(trips) = 3
    /\ trips[1].res = "empty" /\ trips[2].res = "match"
    /\ trips[2].url = SearchUrl(T_WildV2)
    /\ IsDetail(trips[3])

\* C2: identify with no known identifier and an empty or absent title
\* issues no network round trip, whatever the author list.
C2_NoTitleNoRoundTrip ==
    (InIdentify /\ ~TruthyId(call.id) /\ ~Truthy(call.title)) =>
        trips = <<>>

\* The texts of a session error that indicate an access-denied condition.
DeniedTexts ==
    {M_403, M_Forbidden}

\* C3: _fetch_url invokes the external-process strategy exactly when the
\* session strategy failed with an access-denied text, and then returns its
\* bytes; any other session error propagates and a session success is
\* returned, the external-process strategy not being invoked.
C3_FallbackOnlyOnAccessDenied ==
    call.op = "_fetch_url" =>
        /\ pc = "curl" =>
              /\ ~last.ok /\ last.msg \in DeniedTexts
              /\ Len(trips) = 1 /\ trips[1].strategy = "session"
        /\ (pc = "done" /\ Len(trips) = 1) =>
              /\ trips[1].strategy = "session"
              /\ last.ok => ret = Returned(last.body)
              /\ ~last.ok => /\ last.msg \notin DeniedTexts
                             /\ ret.status = "raised"
                             /\ ret.msg = last.msg
        /\ (pc = "done" /\ Len(trips) # 1) =>
              /\ Len(trips) = 2
              /\ trips[1].strategy = "session" /\ trips[1].res = "denied"
              /\ trips[2].strategy = "curl"
              /\ trips[2].url = call.url
              /\ last.ok => ret = Returned(last.body)

\* C3's case: the session strategy was denied and the fallback's bytes are
\* the call's result.
C3_Witness ==
    /\ call.op = "_fetch_url" /\ pc = "done"
    /\ Len(trips) = 2 /\ trips[1].res = "denied"
    /\ last.ok /\ ret = Returned("page-B")

\* C4: every round trip of identify and download_cover goes through the
\* Fetcher: the external-process strategy is invoked for a URL only right
\* after the session strategy failed with access-denied for that URL.
C4_SessionStrategyFirst ==
    call.op \in {"identify", "download_cover"} =>
        \A i \in DOMAIN trips : trips[i].strategy = "curl" =>
            /\ i > 1
            /\ trips[i - 1].strategy = "session"
            /\ trips[i - 1].url = trips[i].url
            /\ trips[i - 1].res = "denied"

\* A search round trip failed: the command failed, or its output is not
\* JSON of a shape _api_search can read.
SearchFailed(outcome) ==
    ~outcome.ok \/ outcome.body.kind \in {"invalid", "scalar"}

\* A detail round trip failed: the command failed, or its output is not a
\* JSON object.
DetailFailed(outcome) ==
    ~outcome.ok \/ outcome.body.kind # "object"

\* C5: identify never lets an exception reach the host, whatever the
\* outcomes of its round trips; and a record is on the result sink only
\* after a detail round trip that succeeded, so none is when no match was
\* found, a search failed or the detail fetch or parse failed.
C5_NoExceptionNoPartialResult ==
    InIdentify =>
        /\ ret.status # "raised"
        /\ pc = "done" => ret.status = "returned"
        /\ result_queue # <<>> =>
              /\ pc = "done" /\ trips # <<>>
              /\ IsDetail(trips[Len(trips)])
              /\ ~DetailFailed(last)
              /\ \A i \in DOMAIN trips : trips[i].res # "error"

\* C5's case: a match was found and the detail body was not JSON; the call
\* returned and put nothing.
C5_Witness ==
    /\ InIdentify /\ pc = "done" /\ ret.status = "returned"
    /\ Len(trips) = 2 /\ trips[1].res = "match" /\ IsDetail(trips[2])
    /\ last.ok /\ last.body.kind = "invalid"
    /\ result_queue = <<>>

\* The outcome of the latest round trip is at hand (Cascade drops it).
HasOutcome ==
    last.ok \/ last.msg # <<>>

\* The latest round trip of the call is a search that failed.
LastSearchFailed ==
    /\ trips # <<>> /\ IsSearch(trips[Len(trips)])
    /\ HasOutcome /\ SearchFailed(last)

\* C6 as stated: a failed search at a stage that is not the last one counts
\* as no match at that stage and the cascade goes on with the next
\* candidate, so a call never ends on a failed search that a (non-empty)
\* candidate would follow.
C6_FailureContinuesCascade ==
    (InIdentify /\ pc = "done" /\ LastSearchFailed) =>
        LET n == NextStage(stage, <<>>, call.title, call.authors, query)
        IN  n = 0 \/ StageKeyword(n, call.title, call.authors) = <<>>

\* C6, amended: a failed search at any stage of the cascade ends the
\* identify call: no later candidate is searched, no detail fetch is
\* issued and nothing is put on the sink.
C6_FailureAbortsCall ==
    InIdentify =>
        /\ LastSearchFailed =>
              /\ pc = "done" /\ ret.status = "returned"
              /\ result_queue = <<>>
        /\ \A i \in DOMAIN trips :
              (IsSearch(trips[i]) /\ trips[i].res = "error") =>
                  i = Len(trips)

\* C6's case: the first search failed although the title-only candidate
\* and the cleaned title would follow it.
C6_Witness ==
    /\ InIdentify /\ pc = "done" /\ LastSearchFailed
    /\ stage = 1 /\ Len(trips) = 1
    /\ call.title = T_Spellcraft /\ call.authors # <<>>
    /\ NextStage(stage, <<>>, call.title, call.authors, query) = 2

\* The names that contain the block term "fantasy grounds" in some case.
BlockedNames ==
    {N_GrimoireFG}

\* The items of a response that count as matches: those with an id and a
\* name whose name is not blocked.
KeptAt(data) ==
    {i \in DOMAIN data :
        /\ data[i].entityId # NoId /\ data[i].name # None
        /\ data[i].name \notin BlockedNames}

\* The number of searches identify issues when none finds a match: the
\* title with the first author, the title alone when there is an author,
\* the cleaned title when cleaning changes the title and then its first
\* four words when it has more than four.
AllEmptyCount(title, authors) ==
    LET clean == CleanTitle(title)
    IN  1 + (IF authors # <<>> THEN 1 ELSE 0)
          + (IF clean # title
             THEN 1 + (IF Len(Split(clean)) > 4 THEN 1 ELSE 0)
             ELSE 0)

\* C7: the matches of a search response are its items that are not
\* blocked, in the response's order, so the id resolved is that of the
\* first one left; a response with no `data` or with blocked items only
\* counts as zero matches, and only then does the cascade go on.
C7_BlockTermFilter ==
    InIdentify =>
        /\ (pc = "cascade" /\ last.body.kind = "object") =>
              LET data == last.body.data
                  kept == KeptAt(data)
              IN  /\ Len(matches) = Cardinality(kept)
                  /\ \A i \in kept :
                        LET k == Cardinality({j \in kept : j <= i})
                        IN  /\ matches[k].id = data[i].entityId
                            /\ matches[k].name = data[i].name
                  /\ trips[Len(trips)].res =
                        (IF kept = {} THEN "empty" ELSE "match")
        /\ (pc = "cascade" /\ last.body.kind = "array") => matches = <<>>
        /\ (pc = "search" /\ stage > 1) => matches = <<>>
        /\ (pc = "detail" /\ stage > 0) =>
              /\ matches # <<>> /\ product_id = matches[1].id
        /\ (pc = "done" /\ trips # <<>>
              /\ IsSearch(trips[Len(trips)])
              /\ trips[Len(trips)].res = "empty") =>
              Len(trips) = AllEmptyCount(call.title, call.authors)

\* C7's case: the response lists the Fantasy Grounds edition first and the
\* plain one second; only the second is a match.
C7_Witness ==
    /\ InIdentify /\ pc = "cascade"
    /\ last.ok /\ last.body.kind = "object" /\ last.body.hasData
    /\ last.body.data = <<[entityId |-> IntId(2), name |-> N_GrimoireFG],
                          [entityId |-> IntId(1), name |-> N_Grimoire]>>
    /\ matches = <<[id |-> IntId(1), name |-> N_Grimoire]>>

\* The catalog id identify resolved: the known identifier, else the id of
\* the first match.
ResolvedId ==
    IF call.id # NoId THEN call.id ELSE StrId(matches[1].id.v)

\* C8: identify puts at most one record; the record's identifier is the
\* catalog id whose detail resource was fetched, its title is non-empty
\* ("Unknown" when the envelope names none) and its author list is
\* non-empty (["Unknown"] when the envelope lists none).
C8_RecordWellFormed ==
    InIdentify =>
        /\ Len(result_queue) <= 1
        /\ \A k \in DOMAIN result_queue :
              LET mi == result_queue[k]
                  fetched == trips[Len(trips)]
              IN  /\ mi.kind = "mi"
                  /\ IsDetail(fetched) /\ fetched.url.id = mi.identifier
                  /\ mi.identifier = ResolvedId
                  /\ mi.title # None /\ mi.title # <<>>
                  /\ mi.authors # <<>>
                  /\ (last.body.descName = None /\ last.body.name = None)
                        => mi.title = Unknown
                  /\ last.body.descName # None => mi.title = last.body.descName
                  /\ last.body.authors = <<>> => mi.authors = <<Unknown>>
                  /\ last.body.authors # <<>> => mi.authors = last.body.authors

\* C8's case: the id came from a search and the envelope names neither a
\* title nor authors.
C8_Witness ==
    /\ InIdentify /\ pc = "done" /\ call.id = NoId
    /\ Len(result_queue) = 1
    /\ result_queue[1].title = Unknown
    /\ result_queue[1].authors = <<Unknown>>
    /\ result_queue[1].identifier = StrId(2)

\* The cover URL registered under `id` in the instance's cache, if any.
Registered(id) ==
    {e[2] : e \in {x \in cached_cover.map : x[1] = id}}

\* C9: a successful detail mapping of id X with image path P leaves the URL
\* <image-base>/P registered under X and fetches no cover; download_cover
\* for an id with a registered URL issues exactly one fetch, of that URL,
\* and puts its bytes; download_cover for an id with none, or without an
\* id, issues no fetch and puts nothing.
C9_CoverCacheProtocol ==
    /\ InIdentify =>
          /\ \A i \in DOMAIN trips : ~IsCover(trips[i])
          /\ (result_queue # <<>> /\ last.body.image # None) =>
                Registered(ResolvedId) = {CoverUrl(last.body.image)}
    /\ \A e \in cached_cover.map : e[1].t = "str"
    /\ \A id \in HostIds : Cardinality(Registered(id)) <= 1
    /\ call.op = "download_cover" =>
          /\ (Registered(call.id) # {} /\ call.id # NoId) =>
                /\ pc = "cover" \/ pc = "done"
                /\ pc = "cover" => trips = <<>>
                /\ pc = "done" =>
                      /\ Len(trips) = 1 /\ trips[1].strategy = "curl"
                      /\ Registered(call.id) = {trips[1].url}
                      /\ last.ok => result_queue = <<CoverEntry(last.body)>>
                      /\ ~last.ok => result_queue = <<>>
          /\ (Registered(call.id) = {} \/ call.id = NoId) =>
                /\ pc = "done" /\ trips = <<>> /\ result_queue = <<>>

\* C9's case: a cover URL registered by an earlier identify is fetched once
\* and its bytes are put.
C9_Witness ==
    /\ call.op = "download_cover" /\ pc = "done"
    /\ call.id = StrId(1)
    /\ Len(trips) = 1 /\ trips[1].url = CoverUrl(P_ImgB)
    /\ result_queue = <<CoverEntry("JPEG-A")>>

\* C10: identify with a known identifier issues no search, whatever the
\* title and authors: its only round trip is the detail fetch of that id.
C10_KnownIdSkipsSearch ==
    (InIdentify /\ call.id # NoId) =>
        /\ Len(trips) <= 1
        /\ \A i \in DOMAIN trips : trips[i].url = DetailUrl(call.id)
        /\ pc = "done" => Len(trips) = 1
        /\ pc \in {"detail", "done"}

\* C10's case: a known identifier together with a title and authors that
\* would give four candidates.
C10_Witness ==
    /\ InIdentify /\ pc = "done" /\ call.id = StrId(2)
    /\ call.title = T_WildV2 /\ call.authors # <<>>
    /\ trips = <<Trip("curl", DetailUrl(StrId(2)), DefaultTimeout, "ok")>>

\* The keywords of the call's search round trips, in order (as sent, that
\* is percent-encoded).
SearchKeywords ==
    [i \in {j \in DOMAIN trips : IsSearch(trips[j])} |-> trips[i].url.keyword]

\* C11: the search keywords one identify call issues contain no duplicate.
C11_NoDuplicateKeywords ==
    InIdentify =>
        \A i \in DOMAIN SearchKeywords : \A j \in DOMAIN SearchKeywords :
            i # j => SearchKeywords[i] # SearchKeywords[j]

\* C12: no search round trip is issued with an empty keyword.
C12_NoEmptyKeyword ==
    InIdentify =>
        \A i \in DOMAIN trips : IsSearch(trips[i]) =>
            trips[i].url.keyword # <<>>

\* The call ended on a search without matches: every candidate the code
\* tries for this title and these authors returned zero filtered matches.
CascadeExhausted ==
    /\ InIdentify /\ pc = "done" /\ trips # <<>>
    /\ IsSearch(trips[Len(trips)])
    /\ trips[Len(trips)].res = "empty"

\* C13: when the cleaned title has more than four words and no candidate
\* matched, the first four words of the cleaned title were searched,
\* whether or not cleaning changed the title; when it has four words or
\* fewer, they never are.
C13_ShortTitleSearched ==
    LET clean == CleanTitle(call.title)
        short == SearchUrl(ShortTitle(clean))
    IN  /\ (CascadeExhausted /\ Len(Split(clean)) > 4) =>
              \E i \in DOMAIN trips : trips[i].url = short
        /\ (InIdentify /\ Len(Split(clean)) <= 4) =>
              Cardinality(DOMAIN SearchKeywords) <= 3

\* The detail mapping of the call emitted a record from the envelope that
\* `last` holds.
Mapped ==
    /\ InIdentify /\ pc = "done"
    /\ Len(result_queue) = 1

\* The positions of `included` that hold an entity of type Publisher.
Tagged(included) ==
    {i \in DOMAIN included : included[i].type = "Publisher"}

\* The positions of `included` that hold an entity of type Publisher with a
\* non-empty name.
Named(included) ==
    {i \in Tagged(included) : Truthy(included[i].name)}

\* The least position of a non-empty set of positions.
First(positions) ==
    CHOOSE i \in positions : \A j \in positions : i <= j

\* C14 as stated: the publisher is the name of the first entity of
\* `included` whose type is Publisher, the scan stopping at that entity
\* (without a publisher when it has no name), and unset when no entity is
\* of type Publisher.
C14_FirstTaggedPublisher ==
    Mapped =>
        LET inc == last.body.included
            mi  == result_queue[1]
        IN  IF Tagged(inc) = {} THEN mi.publisher = None
            ELSE LET e == inc[First(Tagged(inc))]
                 IN  mi.publisher = IF Truthy(e.name) THEN e.name ELSE None

\* C14, amended: the publisher is the name of the first entity of `included`
\* whose type is Publisher and whose name is non-empty, a Publisher entity
\* without a name being passed over; it is unset when `included` is absent
\* or holds no such entity.
C14_FirstNamedPublisher ==
    Mapped =>
        LET inc == last.body.included
            mi  == result_queue[1]
        IN  /\ ~last.body.hasIncluded => mi.publisher = None
            /\ Named(inc) = {} => mi.publisher = None
            /\ Named(inc) # {} => mi.publisher = inc[First(Named(inc))].name

\* C14's case: a Publisher entity without a name stands before a named
\* one, whose name is taken.
C14_Witness ==
    /\ Mapped
    /\ last.body.hasIncluded
    /\ last.body.included =
          <<[type |-> "Publisher", name |-> None],
            [type |-> "Publisher", name |-> P_Onyx]>>
    /\ result_queue[1].publisher = P_Onyx

\* C15: one _fetch_url call invokes the session strategy once and the
\* external-process strategy at most once, after it and with the call's URL
\* and timeout; when the external process fails, its error is the outcome
\* of the call and nothing more is attempted.
C15_NoStrategyAlternation ==
    call.op = "_fetch_url" =>
        LET session == {i \in DOMAIN trips : trips[i].strategy = "session"}
            curl    == {i \in DOMAIN trips : trips[i].strategy = "curl"}
        IN  /\ Cardinality(session) <= 1
            /\ Cardinality(curl) <= 1
            /\ pc \in {"curl", "done"} => session = {1}
            /\ \A i \in curl :
                  /\ i = 2
                  /\ trips[i].url = call.url /\ trips[1].url = call.url
                  /\ trips[i].timeout = call.timeout
                  /\ trips[1].timeout = call.timeout
                  /\ trips[i].res = "error" =>
                        /\ pc = "done"
                        /\ ret = Raised("Exception", CurlFailed \o last.msg)

\* C15's case: the session strategy was blocked and the external process,
\* run with the call's timeout of 10 s, failed.
C15_Witness ==
    /\ call.op = "_fetch_url" /\ pc = "done" /\ call.timeout = 10
    /\ Len(trips) = 2
    /\ trips[1].res = "denied" /\ trips[2].res = "error"
    /\ ret.status = "raised"

\* C16: for a well-formed envelope, whichever of description, name,
\* authors, dateAvailable, image and included are absent and whether or not
\* dateAvailable can be parsed, the detail mapping raises nothing and emits
\* one record, with the comments empty, the date unset, no publisher and no
\* cover registered for the absent parts; nothing is emitted only when the
\* fetch failed or the body has not the envelope's shape.
C16_BestEffortMapping ==
    [][ (pc = "detail" /\ pc' = "done") =>
          LET body == last'.body
              well == last'.ok /\ body.kind = "object"
              trip == trips'[Len(trips')]
          IN  /\ ret' = Returned("")
              /\ ~well => /\ result_queue' = <<>> /\ trip.res = "error"
                          /\ cached_cover' = cached_cover
              /\ well =>
                    /\ Len(result_queue') = 1
                    /\ trip.res = "ok"
                    /\ LET mi == result_queue'[1]
                       IN  /\ mi.identifier = Str(product_id)
                           /\ body.descText = None => mi.comments = <<>>
                           /\ body.descText # None =>
                                 mi.comments = body.descText
                           /\ mi.pubdate =
                                 IF body.dateAvailable \in {"", "soon"}
                                 THEN "" ELSE body.dateAvailable
                           /\ ~body.hasIncluded => mi.publisher = None
                           /\ body.image = None =>
                                 cached_cover' = cached_cover ]_vars

\* C16's case: an envelope with nothing but a dateAvailable that cannot be
\* parsed gives a record with the sentinels and no date.
C16_Witness ==
    /\ Mapped
    /\ last.body.descName = None /\ last.body.name = None
    /\ last.body.authors = <<>> /\ last.body.image = None
    /\ ~last.body.hasIncluded
    /\ last.body.dateAvailable = "soon"
    /\ result_queue[1].pubdate = ""
    /\ result_queue[1].title = Unknown

\* What is left of an identify call at most: two steps for each strategy
\* still to try, one for the detail fetch.
Rank ==
    CASE pc = "search"  -> 2 * (4 - stage) + 3
      [] pc = "cascade" -> 2 * (4 - stage) + 2
      [] pc = "detail"  -> 1
      [] OTHER          -> 0

\* C17: identify retries nothing: every step of a call lowers a rank that
\* is at most 9 at the start, so the call ends after at most 9 steps once
\* each round trip ends; the call makes at most four search round trips,
\* one for each strategy, and at most one detail round trip.
C17_NoRetryTerminates ==
    [][ (InIdentify' /\ pc # "idle") =>
           /\ Rank' < Rank
           /\ Rank <= 9
           /\ Len(trips') <= Len(trips) + 1
           /\ (pc = "cascade" /\ pc' = "search") => stage' > stage
           /\ pc = "search" =>
                 /\ stage' = stage
                 /\ trips' = Append(trips, trips'[Len(trips')])
                 /\ trips'[Len(trips')].url =
                       SearchUrl(StageKeyword(stage, call.title,
                                              call.authors))
           /\ Cardinality({i \in DOMAIN trips' : IsSearch(trips'[i])}) <= 4
           /\ Cardinality({i \in DOMAIN trips' : IsDetail(trips'[i])}) <= 1
      ]_vars

\* C17's case: all four strategies were searched and the detail of the
\* match of the fourth was fetched.
C17_Witness ==
    /\ InIdentify /\ pc = "done"
    /\ Len(trips) = 5
    /\ \A i \in 1..4 : IsSearch(trips[i])
    /\ IsDetail(trips[5])

\* C18: once the abort event is set, identify starts no round trip but the
\* one that may be in flight.
C18_AbortStopsRoundTrips ==
    (InIdentify /\ abort) => Len(trips) <= abort_trips + 1

\* C19: when the threads have all left cache_cover_url, a cover URL can be
\* retrieved for the catalog id of each of them, and it is one that was
\* registered for that id.
C19_NoLostCacheEntry ==
    (\A w \in Workers : workers[w].pc = "cached") =>
        \A w \in Workers :
            Registered(workers[w].id) \subseteq
                {workers[v].url : v \in {x \in Workers :
                                            workers[x].id = workers[w].id}}
            /\ Registered(workers[w].id) # {}

====
